---- MODULE Spec2Model ----
(***************************************************************************)
(* Model of the telemetry protocol: the server's sequence tracker,         *)
(* reorder buffer and heartbeat monitor (src/server/server.py) and the     *)
(* sensors that feed it (src/sensor/*.py).                                 *)
(***************************************************************************)
EXTENDS Integers, Sequences, FiniteSets, TLC

\* ---------------------------------------------------------------- bounds
MaxSent == 3        \* sendto calls of the sensor in SpecNet
MaxDup == 2         \* datagrams the network duplicates in SpecNet
MaxTime == 1        \* clock readings 0..MaxTime in SpecNet
BatchSize == 1      \* batch_size the sensor of SpecNet is constructed with
MaxPackets == 6     \* datagrams handled in SpecSrv
MaxBeats == 12      \* heartbeats explored by SpecHB
MaxCalls == 4       \* calls of detect_seq_state explored by SpecSeq
SeqLow == 2         \* sequence numbers 0..SeqLow are offered as inputs
SeqHigh == 2        \* ... and the SeqHigh numbers just below the wraparound

\* ------------------------------------------------------ program constants
SeqMod == 65536     \* 16-bit sequence field: "& 0xFFFF"
FlushThreshold == 5 \* len(self.reorder_buffer[device_id]) >= 5
WindowSize == 10    \* last_times[-10:]
HeaderSize == 10    \* struct.calcsize("!B H H I B")
DATA == 1
HEARTBEAT == 2
AckFlag == 2        \* flags & 0x02
MAX_RETRIES == 3
HIGH_TEMP_THRESHOLD == 3500
MAX_READINGS_PER_BATCH == 47    \* (200 - 10) // 4
MAX_PACKET_BYTES == 200         \* check_payload_size: total_size <= 200
BatchedFlag == 1                \* flags = 0x01

Devices == {1001, 1002}
HBDevices == {1001}     \* the device whose heartbeats SpecHB feeds
HBDeltas == {1, 3}      \* time elapsed between two heartbeats
SeqVals == (0..SeqLow) \cup {10, 15} \cup ((SeqMod - SeqHigh)..(SeqMod - 1))

VARIABLES
    last_seq,          \* self.last_seq: dict device -> last accepted sequence
    duplicate_counts,  \* self.duplicate_counts
    gap_counts,        \* self.gap_counts
    ret,               \* what the last call of detect_seq_state returned
    call,              \* the arguments of that call
    prev_seq,          \* per device, the sequence of the previous call
    in_order,          \* per device, length of the unbroken in-order run since
                       \* the first call (0 once a call was not prev + 1)
    ncalls,            \* number of calls made so far
    device_heartbeats, \* self.device_heartbeats: dict device -> arrival times
    device_status,     \* self.device_status: dict device -> ONLINE / OFFLINE
    status_rows,       \* the rows appended to device_status.csv
    now,               \* the server's clock, time.time()
    avg_interval,      \* avg_interval of the last heartbeat, as num / den
    beat,              \* the device of the last heartbeat (0: none yet)
    nbeats,            \* number of heartbeats handled so far
    reorder_buffer,    \* self.reorder_buffer: dict device -> pending entries
    last_values,       \* self.last_values: dict device -> last readings
    telemetry_log,     \* the rows appended to telemetry_log.csv
    acks_sent,         \* the ACK datagrams the server has sent, in order
    npackets,          \* number of datagrams handed to handle_packet so far
    pkt,               \* the datagram handle_packet handled last
    dup_ids,           \* arrival numbers of the datagrams that arrived with
                       \* sequence = lastSeen of their device
    packet_queue,      \* packet_queue: received datagrams awaiting the worker
    wire,              \* datagrams sent to the server and still in the network
    ack_wire,          \* ACK datagrams sent to the sensor, still in the network
    s_seq,             \* sensor: self.seq
    batch_buffer,      \* sensor: self.batch_buffer
    s_pc,              \* sensor: "idle", or "await" inside recvfrom of the retry loop
    retries,           \* sensor: retries of the batch being sent
    s_pkt,             \* sensor: pkt, the packet built for the current batch
    nsent,             \* number of sendto calls of the sensor so far
    ndup,              \* number of datagrams the network has duplicated so far
    cfg,               \* sensor: the class and the arguments of __init__
    lim,               \* how far the sensor is explored: sendto calls, clock
    tx,                \* sendto calls made for the batch being sent
    nreply,            \* datagrams recvfrom returned while it was being sent
    s_ret,             \* what the last call of send_batch_packet returned
    last_heartbeat_time,   \* sensor: self.last_heartbeat_time
    last_data_time,    \* sensor: self.last_data_time
    wake,              \* sensor: the time the sleep of the run loop ends
    fate               \* per datagram the lossy channel has dealt with, in the
                       \* order sent: TRUE delivered, FALSE lost

trackerVars == <<last_seq, duplicate_counts, gap_counts>>
obsVars == <<ret, call, prev_seq, in_order, ncalls>>
hbVars == <<device_heartbeats, device_status, status_rows, now>>
hbObs == <<avg_interval, beat, nbeats>>
bufVars == <<reorder_buffer, last_values, telemetry_log, acks_sent>>
bufObs == <<npackets, pkt, dup_ids>>
netVars == <<packet_queue, wire, ack_wire, ndup>>
sensorOwn == <<s_seq, batch_buffer, s_pc, retries, s_pkt, nsent, cfg, lim,
               tx, nreply, s_ret, last_heartbeat_time, last_data_time, wake>>
sensorVars == <<sensorOwn, fate>>
vars == <<trackerVars, obsVars, hbVars, hbObs, bufVars, bufObs, netVars, sensorVars>>

\* ------------------------------------------------------------ dictionaries
EmptyDict == [k \in {} |-> 0]
Put(f, k, v) == [x \in (DOMAIN f) \cup {k} |-> IF x = k THEN v ELSE f[x]]
Has(f, k) == k \in DOMAIN f

\* ------------------------------------------------------- sequence tracker
NoFlags == [duplicate_flag |-> 0, gap_flag |-> 0, gap_count_here |-> 0]

\* the in-order test without the 16-bit mask
IsNextSeq_NoMask(last, seq) == seq = last + 1

\* line 190: seq == (last + 1) & 0xFFFF
IsNextSeq(last, seq) == seq = (last + 1) % SeqMod

\* the gap test by modular distance, which takes a smaller sequence for a gap
IsGapSeq_Modular(last, seq) == ((seq - last) % SeqMod) > 1

\* line 192: (seq & 0xFFFF) > (last & 0xFFFF) and seq > last + 1
IsGapSeq(last, seq) == (seq % SeqMod) > (last % SeqMod) /\ seq > last + 1

\* the gap size counted one too many
GapSize_OffByOne(last, seq) == seq - last

\* line 194: gap_count_here = seq - last - 1
GapSize(last, seq) == seq - last - 1

\* detect_seq_state whose duplicate branch counts the duplicate but
\* returns the flag still clear
DetectSeqState_FlagLost(ls, dc, gc, device_id, seq) ==
    IF ~Has(ls, device_id)
    THEN [last_seq |-> Put(ls, device_id, seq),
          duplicate_counts |-> Put(dc, device_id, 0),
          gap_counts |-> Put(gc, device_id, 0),
          ret |-> NoFlags]
    ELSE LET last == ls[device_id] IN
         IF seq = last
         THEN [last_seq |-> ls,
               duplicate_counts |-> Put(dc, device_id, dc[device_id] + 1),
               gap_counts |-> gc,
               ret |-> NoFlags]
         ELSE IF IsNextSeq(last, seq)
         THEN [last_seq |-> Put(ls, device_id, seq),
               duplicate_counts |-> dc,
               gap_counts |-> gc,
               ret |-> NoFlags]
         ELSE IF IsGapSeq(last, seq)
         THEN [last_seq |-> Put(ls, device_id, seq),
               duplicate_counts |-> dc,
               gap_counts |-> Put(gc, device_id, gc[device_id] + GapSize(last, seq)),
               ret |-> [duplicate_flag |-> 0, gap_flag |-> 1,
                        gap_count_here |-> GapSize(last, seq)]]
         ELSE [last_seq |-> ls,
               duplicate_counts |-> dc,
               gap_counts |-> gc,
               ret |-> NoFlags]

\* detect_seq_state whose duplicate branch sets the flag but forgets the
\* per-device counter
DetectSeqState_NoDupCount(ls, dc, gc, device_id, seq) ==
    IF ~Has(ls, device_id)
    THEN [last_seq |-> Put(ls, device_id, seq),
          duplicate_counts |-> Put(dc, device_id, 0),
          gap_counts |-> Put(gc, device_id, 0),
          ret |-> NoFlags]
    ELSE LET last == ls[device_id] IN
         IF seq = last
         THEN [last_seq |-> ls,
               duplicate_counts |-> dc,
               gap_counts |-> gc,
               ret |-> [NoFlags EXCEPT !.duplicate_flag = 1]]
         ELSE IF IsNextSeq(last, seq)
         THEN [last_seq |-> Put(ls, device_id, seq),
               duplicate_counts |-> dc,
               gap_counts |-> gc,
               ret |-> NoFlags]
         ELSE IF IsGapSeq(last, seq)
         THEN [last_seq |-> Put(ls, device_id, seq),
               duplicate_counts |-> dc,
               gap_counts |-> Put(gc, device_id, gc[device_id] + GapSize(last, seq)),
               ret |-> [duplicate_flag |-> 0, gap_flag |-> 1,
                        gap_count_here |-> GapSize(last, seq)]]
         ELSE [last_seq |-> ls,
               duplicate_counts |-> dc,
               gap_counts |-> gc,
               ret |-> NoFlags]

\* detect_seq_state(device_id, seq): the new tracker state and the returned
\* triple, from the tracker state (ls, dc, gc).
DetectSeqState(ls, dc, gc, device_id, seq) ==
    IF ~Has(ls, device_id)
    THEN [last_seq |-> Put(ls, device_id, seq),
          duplicate_counts |-> Put(dc, device_id, 0),
          gap_counts |-> Put(gc, device_id, 0),
          ret |-> NoFlags]
    ELSE LET last == ls[device_id] IN
         IF seq = last
         THEN [last_seq |-> ls,
               duplicate_counts |-> Put(dc, device_id, dc[device_id] + 1),
               gap_counts |-> gc,
               ret |-> [NoFlags EXCEPT !.duplicate_flag = 1]]
         ELSE IF IsNextSeq(last, seq)
         THEN [last_seq |-> Put(ls, device_id, seq),
               duplicate_counts |-> dc,
               gap_counts |-> gc,
               ret |-> NoFlags]
         ELSE IF IsGapSeq(last, seq)
         THEN [last_seq |-> Put(ls, device_id, seq),
               duplicate_counts |-> dc,
               gap_counts |-> Put(gc, device_id, gc[device_id] + GapSize(last, seq)),
               ret |-> [duplicate_flag |-> 0, gap_flag |-> 1,
                        gap_count_here |-> GapSize(last, seq)]]
         ELSE [last_seq |-> ls,
               duplicate_counts |-> dc,
               gap_counts |-> gc,
               ret |-> NoFlags]

\* ------------------------------------------------------ heartbeat monitor
RECURSIVE SumSeq(_)
SumSeq(s) == IF s = <<>> THEN 0 ELSE Head(s) + SumSeq(Tail(s))

\* s[-n:]
LastN(s, n) == IF Len(s) <= n THEN s ELSE SubSeq(s, Len(s) - n + 1, Len(s))

\* line 221: [t2 - t1 for t1, t2 in zip(last_times[:-1], last_times[1:])]
Intervals(last_times) ==
    [i \in 1..(Len(last_times) - 1) |-> last_times[i + 1] - last_times[i]]

\* the mean taken over the earlier gaps only, the newest one left out
AvgInterval_Earlier(last_times) ==
    IF Len(last_times) >= 3
    THEN [num |-> SumSeq(Intervals(SubSeq(last_times, 1, Len(last_times) - 1))),
          den |-> Len(last_times) - 2]
    ELSE [num |-> 1, den |-> 1]

\* lines 220-224: avg_interval, kept as the fraction num / den
AvgInterval(last_times) ==
    IF Len(last_times) >= 2
    THEN [num |-> SumSeq(Intervals(last_times)), den |-> Len(Intervals(last_times))]
    ELSE [num |-> 1, den |-> 1]

\* the OFFLINE test that forgets the previous status
OfflineTest_NoPrev(prev_status, last_times, current_time) ==
    LET avg == AvgInterval(last_times) IN
    /\ Len(last_times) >= 2
    /\ (current_time - last_times[Len(last_times) - 1]) * avg.den > 2 * avg.num

\* line 228: prev_status == "ONLINE" and len(last_times) >= 2 and
\*           (current_time - last_times[-2]) > 2 * avg_interval
OfflineTest(prev_status, last_times, current_time) ==
    LET avg == AvgInterval(last_times) IN
    /\ prev_status = "ONLINE"
    /\ Len(last_times) >= 2
    /\ (current_time - last_times[Len(last_times) - 1]) * avg.den > 2 * avg.num

\* a row only when the status differs from the (defaulted) previous one
EmitTest_OnChangeOnly(prev_status, status, known) == prev_status # status

\* line 233: prev_status != status or device_id not in self.device_status
EmitTest(prev_status, status, known) == prev_status # status \/ ~known

\* handle_heartbeat(device_id) at time current_time: the new monitor state
HandleHeartbeat(hb, st, rows, device_id, current_time) ==
    LET last_times == Append(IF Has(hb, device_id) THEN hb[device_id] ELSE <<>>,
                             current_time)
        prev_status == IF Has(st, device_id) THEN st[device_id] ELSE "ONLINE"
        status == IF OfflineTest(prev_status, last_times, current_time)
                  THEN "OFFLINE" ELSE "ONLINE"
        emit == EmitTest(prev_status, status, Has(st, device_id))
    IN [device_heartbeats |-> Put(hb, device_id, LastN(last_times, WindowSize)),
        device_status |-> IF emit THEN Put(st, device_id, status) ELSE st,
        status_rows |-> IF emit
                        THEN Append(rows, [device_id |-> device_id,
                                           timestamp |-> current_time,
                                           status |-> status])
                        ELSE rows,
        avg_interval |-> AvgInterval(last_times)]

\* ---------------------------------------------------------------- packets
\* struct.pack("!I", v): the 4 bytes of v, most significant first
PackU32(v) ==
    <<(v \div 16777216) % 256, (v \div 65536) % 256, (v \div 256) % 256, v % 256>>

\* the payload of a batch: the readings packed one after the other
RECURSIVE PackValues(_)
PackValues(values) ==
    IF values = <<>> THEN <<>>
    ELSE PackU32(Head(values)) \o PackValues(Tail(values))

\* A datagram as the server receives it: the header fields and the payload
\* bytes, size its length in bytes; a datagram shorter than the header has
\* no fields to speak of.
Datagram(msg_type, device_id, seq, timestamp, flags, payload, addr) ==
    [size |-> HeaderSize + Len(payload),
     raw_byte |-> ((1 * 16) + (msg_type % 16)) % 256,
     device_id |-> device_id, seq |-> seq, timestamp |-> timestamp,
     flags |-> flags, payload |-> payload, addr |-> addr]

ShortDatagram(size, addr) ==
    [size |-> size, raw_byte |-> 0, device_id |-> 0, seq |-> 0,
     timestamp |-> 0, flags |-> 0, payload |-> <<>>, addr |-> addr]

NoDatagram == ShortDatagram(0, 0)

\* line 101: msg_type = raw_byte & 0x0F
MsgType(data) == data.raw_byte % 16

\* line 148: flags & 0x02
AckRequested(flags) == (flags \div AckFlag) % 2 = 1

\* parse_values: one value per whole 4-byte chunk of the payload, a shorter
\* last chunk is skipped
ParseValues(payload) ==
    [i \in 1..(Len(payload) \div 4) |->
        payload[4 * i - 3] * 16777216 + payload[4 * i - 2] * 65536
            + payload[4 * i - 1] * 256 + payload[4 * i]]

\* -------------------------------------------------------- reorder buffer
\* place e behind every entry of the sorted s whose send time is <= its own
RECURSIVE InsertByTime(_, _)
InsertByTime(s, e) ==
    IF s = <<>> THEN <<e>>
    ELSE IF s[Len(s)].timestamp <= e.timestamp THEN Append(s, e)
    ELSE Append(InsertByTime(SubSeq(s, 1, Len(s) - 1), e), s[Len(s)])

\* a sort by send time that keeps no arrival order: the buffer is sorted
\* from its newest entry to its oldest, so ties come out reversed
RECURSIVE SortByTime_Unstable(_)
SortByTime_Unstable(buf) ==
    IF buf = <<>> THEN <<>>
    ELSE InsertByTime(SortByTime_Unstable(Tail(buf)), Head(buf))

\* line 254: self.reorder_buffer[device_id].sort(key=lambda x: x[0]);
\* list.sort is stable
RECURSIVE SortByTime(_)
SortByTime(buf) ==
    IF buf = <<>> THEN <<>>
    ELSE InsertByTime(SortByTime(SubSeq(buf, 1, Len(buf) - 1)), buf[Len(buf)])

\* lines 258-267: the row written for one entry
LogRow(e, arrival_time) ==
    [device_id |-> e.device_id, seq |-> e.seq, msg_type |-> e.msg_type,
     timestamp_sent |-> e.timestamp, timestamp_arrival |-> arrival_time,
     duplicate_flag |-> e.duplicate_flag, gap_flag |-> e.gap_flag,
     flags |-> e.flags,
     payload_value |-> IF e.msg_type = DATA THEN ParseValues(e.payload)
                       ELSE <<"HEARTBEAT">>,
     id |-> e.id]

\* flush_reordered: the rows appended to the log for the buffer buf
FlushRows(buf, arrival_time) ==
    LET sorted == SortByTime(buf)
        kept == SelectSeq(sorted, LAMBDA e : e.duplicate_flag = 0)
    IN [i \in 1..Len(kept) |-> LogRow(kept[i], arrival_time)]

\* the flush threshold taken as "more than 5"
MustFlush_Late(buf) == Len(buf) > FlushThreshold

\* line 163: len(self.reorder_buffer[device_id]) >= 5
MustFlush(buf) == Len(buf) >= FlushThreshold

\* ------------------------------------------------------------------ Init
SensorId == 1001        \* TemperatureSensor's device_id
SensorAddr == 1         \* the address its datagrams come from
Readings == {1500, 3500}    \* generate_reading: randint(1500, 3500)

\* the sensor's class and the arguments of __init__ and of run
Construct(kind, batch, report_interval, heartbeat_interval, duration) ==
    [kind |-> kind, batch_size |-> batch,
     report_interval |-> report_interval,
     heartbeat_interval |-> heartbeat_interval,
     duration |-> duration]

\* The sensor after __init__ (seq0 = 0, buf0 empty), or later in its life
SensorInit(c, l, seq0, buf0) ==
    /\ cfg = c
    /\ lim = l
    /\ s_seq = seq0
    /\ batch_buffer = buf0
    /\ s_pc = "idle"
    /\ retries = 0
    /\ s_pkt = NoDatagram
    /\ nsent = 0
    /\ tx = 0
    /\ nreply = 0
    /\ s_ret = "none"
    /\ last_heartbeat_time = 0
    /\ last_data_time = 0
    /\ wake = SensorId % 3
    /\ fate = <<>>

\* The server after __init__: every dictionary empty, nothing logged.
ServerInit ==
    /\ last_seq = EmptyDict
    /\ duplicate_counts = EmptyDict
    /\ gap_counts = EmptyDict
    /\ ret = NoFlags
    /\ call = [device_id |-> 0, seq |-> 0]
    /\ prev_seq = EmptyDict
    /\ in_order = EmptyDict
    /\ ncalls = 0
    /\ device_heartbeats = EmptyDict
    /\ device_status = EmptyDict
    /\ status_rows = <<>>
    /\ now = 0
    /\ avg_interval = [num |-> 1, den |-> 1]
    /\ beat = 0
    /\ nbeats = 0
    /\ reorder_buffer = EmptyDict
    /\ last_values = EmptyDict
    /\ telemetry_log = <<>>
    /\ acks_sent = <<>>
    /\ npackets = 0
    /\ pkt = NoDatagram
    /\ dup_ids = {}
    /\ packet_queue = <<>>
    /\ wire = <<>>
    /\ ack_wire = <<>>
    /\ ndup = 0

Init ==
    /\ ServerInit
    /\ SensorInit(Construct("temperature", BatchSize, 1, 1, 60),
                  [sent |-> MaxSent, time |-> MaxTime], 0, <<>>)

\* --------------------------------------------------------------- SpecSeq
\* The sequence tracker driven directly: any device, any offered sequence.

CallDetect(d, s) ==
    /\ ncalls < MaxCalls
    /\ LET r == DetectSeqState(last_seq, duplicate_counts, gap_counts, d, s) IN
        /\ last_seq' = r.last_seq
        /\ duplicate_counts' = r.duplicate_counts
        /\ gap_counts' = r.gap_counts
        /\ ret' = r.ret
    /\ call' = [device_id |-> d, seq |-> s]
    /\ in_order' = Put(in_order, d,
                       IF ~Has(prev_seq, d) THEN 1
                       ELSE IF in_order[d] > 0 /\ s = (prev_seq[d] + 1) % SeqMod
                            THEN in_order[d] + 1
                            ELSE 0)
    /\ prev_seq' = Put(prev_seq, d, s)
    /\ ncalls' = ncalls + 1
    /\ UNCHANGED <<hbVars, hbObs, bufVars, bufObs, netVars, sensorVars>>

NextSeq == \E d \in Devices, s \in SeqVals : CallDetect(d, s)

SpecSeq == Init /\ [][NextSeq]_vars

\* A step of SpecSeq is a call of detect_seq_state for device d.
IsCallFor(d) == ncalls' = ncalls + 1 /\ call'.device_id = d

\* C1: while every sequence offered for a device since its first packet is
\* the previous one plus 1 modulo 65536, each call returns duplicate = 0 and
\* gap = 0 and lastSeen is the received sequence, across 65535 -> 0 too.
C1_InOrderNeverFlagged ==
    \A d \in DOMAIN in_order :
        in_order[d] > 0 =>
            /\ last_seq[d] = prev_seq[d]
            /\ duplicate_counts[d] = 0
            /\ gap_counts[d] = 0
            /\ call.device_id = d => (ret = NoFlags /\ last_seq[d] = call.seq)

\* an in-order run of three calls that crossed the wraparound: 65534, 65535, 0
C1_Witness ==
    \E d \in DOMAIN in_order :
        in_order[d] >= 3 /\ call.device_id = d /\ call.seq = 0 /\ last_seq[d] = 0

\* C2: a call whose sequence equals lastSeen returns duplicate = 1, adds
\* exactly 1 to the device's duplicate counter and leaves lastSeen and the
\* gap counter as they were.
C2_DuplicateCounted ==
    [][\A d \in DOMAIN last_seq :
          (IsCallFor(d) /\ call'.seq = last_seq[d]) =>
              /\ ret'.duplicate_flag = 1
              /\ duplicate_counts'[d] = duplicate_counts[d] + 1
              /\ last_seq'[d] = last_seq[d]
              /\ gap_counts'[d] = gap_counts[d]]_vars

\* the same sequence has been resent twice
C2_Witness ==
    /\ ret.duplicate_flag = 1
    /\ Has(duplicate_counts, call.device_id)
    /\ duplicate_counts[call.device_id] = 2
    /\ last_seq[call.device_id] = call.seq

\* C3: a call whose sequence is numerically greater than lastSeen + 1
\* returns gap = 1 with gapSize = sequence - lastSeen - 1, sets lastSeen to
\* the sequence and adds gapSize to the device's gap counter.
C3_GapSized ==
    [][\A d \in DOMAIN last_seq :
          (IsCallFor(d) /\ call'.seq > last_seq[d] + 1) =>
              /\ ret' = [duplicate_flag |-> 0, gap_flag |-> 1,
                         gap_count_here |-> call'.seq - last_seq[d] - 1]
              /\ last_seq'[d] = call'.seq
              /\ gap_counts'[d] = gap_counts[d] + (call'.seq - last_seq[d] - 1)
              /\ duplicate_counts'[d] = duplicate_counts[d]]_vars

\* the jump from 10 to 15: gapSize 4, lastSeen 15
C3_Witness ==
    /\ call.seq = 15
    /\ ret = [duplicate_flag |-> 0, gap_flag |-> 1, gap_count_here |-> 4]
    /\ Has(last_seq, call.device_id)
    /\ last_seq[call.device_id] = 15
    /\ gap_counts[call.device_id] >= 4

\* C4: a call whose sequence is numerically smaller than lastSeen and is
\* not (lastSeen + 1) mod 65536 is out of order: duplicate = 0, gap = 0, and
\* lastSeen and both counters of the device are unchanged.
C4_OutOfOrderUnchanged ==
    [][\A d \in DOMAIN last_seq :
          (/\ IsCallFor(d)
           /\ call'.seq < last_seq[d]
           /\ call'.seq # (last_seq[d] + 1) % 65536) =>
              /\ ret' = NoFlags
              /\ last_seq'[d] = last_seq[d]
              /\ duplicate_counts'[d] = duplicate_counts[d]
              /\ gap_counts'[d] = gap_counts[d]]_vars

\* a stale sequence arrived after lastSeen had moved past it
C4_Witness ==
    /\ ret = NoFlags
    /\ Has(last_seq, call.device_id)
    /\ call.seq < last_seq[call.device_id]
    /\ call.seq # (last_seq[call.device_id] + 1) % 65536
    /\ ncalls >= 2

\* --------------------------------------------------------- handle_packet
\* lines 118 and 173-200: the call of detect_seq_state and what it returns
TrackerCall(d, s) ==
    /\ LET r == DetectSeqState(last_seq, duplicate_counts, gap_counts, d, s) IN
        /\ last_seq' = r.last_seq
        /\ duplicate_counts' = r.duplicate_counts
        /\ gap_counts' = r.gap_counts
        /\ ret' = r.ret
    /\ call' = [device_id |-> d, seq |-> s]
    /\ in_order' = Put(in_order, d,
                       IF ~Has(prev_seq, d) THEN 1
                       ELSE IF in_order[d] > 0 /\ s = (prev_seq[d] + 1) % SeqMod
                            THEN in_order[d] + 1
                            ELSE 0)
    /\ prev_seq' = Put(prev_seq, d, s)
    /\ ncalls' = ncalls + 1

\* lines 157-164: append the entry, flush at the threshold
StoreEntry(data, r) ==
    LET d == data.device_id
        entry == [timestamp |-> data.timestamp, device_id |-> d,
                  seq |-> data.seq, msg_type |-> MsgType(data),
                  payload |-> data.payload,
                  duplicate_flag |-> r.duplicate_flag,
                  gap_flag |-> r.gap_flag, flags |-> data.flags,
                  reading_count |-> IF MsgType(data) = DATA
                                    THEN Len(ParseValues(data.payload)) ELSE 0,
                  id |-> npackets + 1]
        buf == Append(IF Has(reorder_buffer, d) THEN reorder_buffer[d] ELSE <<>>,
                      entry)
    IN IF MustFlush(buf)
       THEN /\ telemetry_log' = telemetry_log \o FlushRows(buf, now')
            /\ reorder_buffer' = Put(reorder_buffer, d, <<>>)
       ELSE /\ telemetry_log' = telemetry_log
            /\ reorder_buffer' = Put(reorder_buffer, d, buf)

\* handle_packet(data, addr), the clock reading t at its arrival
HandlePacket(data, t) ==
    /\ npackets' = npackets + 1
    /\ pkt' = data
    /\ now' = t
    /\ IF data.size < HeaderSize
       THEN \* lines 91-93
            UNCHANGED <<trackerVars, obsVars, device_heartbeats, device_status,
                        status_rows, hbObs, bufVars, dup_ids>>
       ELSE LET d == data.device_id
                r == DetectSeqState(last_seq, duplicate_counts, gap_counts,
                                    d, data.seq).ret
            IN /\ TrackerCall(d, data.seq)
               /\ dup_ids' = IF Has(last_seq, d) /\ last_seq[d] = data.seq
                             THEN dup_ids \cup {npackets + 1} ELSE dup_ids
               /\ IF r.duplicate_flag # 0
                  THEN \* lines 120-122
                       UNCHANGED <<device_heartbeats, device_status, status_rows,
                                   hbObs, bufVars>>
                  ELSE IF MsgType(data) = DATA
                  THEN \* lines 136-149
                       /\ last_values' = Put(last_values, d, ParseValues(data.payload))
                       /\ acks_sent' = IF AckRequested(data.flags)
                                       THEN Append(acks_sent,
                                                   [addr |-> data.addr, seq |-> data.seq])
                                       ELSE acks_sent
                       /\ StoreEntry(data, r)
                       /\ UNCHANGED <<device_heartbeats, device_status,
                                      status_rows, hbObs>>
                  ELSE IF MsgType(data) = HEARTBEAT
                  THEN \* lines 151-152
                       /\ LET h == HandleHeartbeat(device_heartbeats, device_status,
                                                   status_rows, d, t) IN
                           /\ device_heartbeats' = h.device_heartbeats
                           /\ device_status' = h.device_status
                           /\ status_rows' = h.status_rows
                           /\ avg_interval' = h.avg_interval
                       /\ beat' = d
                       /\ nbeats' = nbeats + 1
                       /\ StoreEntry(data, r)
                       /\ UNCHANGED <<last_values, acks_sent>>
                  ELSE \* lines 153-155
                       UNCHANGED <<device_heartbeats, device_status, status_rows,
                                   hbObs, bufVars>>

\* --------------------------------------------------------------- SpecSrv
\* handle_packet driven directly with datagrams of every kind: DATA with
\* and without the ack flag, HEARTBEAT, an unknown type, a truncated one.
SrvDatagrams ==
    { Datagram(DATA, 1001, 1, 2, 2, PackValues(<<3600>>), 1),
      Datagram(DATA, 1001, 2, 1, 0, PackValues(<<1500>>) \o <<7>>, 1),
      Datagram(HEARTBEAT, 1001, 3, 1, 0, <<>>, 1),
      Datagram(DATA, 1001, 3, 2, 1, PackValues(<<2200>>), 1),
      Datagram(3, 1001, 2, 1, 0, <<>>, 1),
      Datagram(HEARTBEAT, 1002, 1, 1, 0, <<>>, 2),
      ShortDatagram(4, 1) }

Receive(data) ==
    /\ npackets < MaxPackets
    /\ HandlePacket(data, now + 1)
    /\ ack_wire' = ack_wire \o SubSeq(acks_sent', Len(acks_sent) + 1, Len(acks_sent'))
    /\ UNCHANGED <<packet_queue, wire, ndup, sensorVars>>

NextSrv == \E data \in SrvDatagrams : Receive(data)

SpecSrv == Init /\ [][NextSrv]_vars

\* the arrival numbers of the entries of a sequence of entries or rows
IdsOf(rows) == {rows[i].id : i \in 1..Len(rows)}

\* C5: when an entry is added to a device's buffer that holds 4, the buffer
\* is flushed: the 5 entries are appended to the log in ascending order of
\* send time, equal send times in arrival order, and the buffer is empty.
C5_FlushSortedStable ==
    [][\A d \in DOMAIN reorder_buffer :
          (Len(reorder_buffer[d]) = 4 /\ reorder_buffer'[d] # reorder_buffer[d]) =>
              LET n == Len(telemetry_log)
                  new == SubSeq(telemetry_log', n + 1, Len(telemetry_log'))
              IN /\ reorder_buffer'[d] = <<>>
                 /\ Len(telemetry_log') = n + 5
                 /\ SubSeq(telemetry_log', 1, n) = telemetry_log
                 /\ IdsOf(new) = IdsOf(reorder_buffer[d]) \cup {npackets'}
                 /\ \A i \in 1..5 :
                        /\ new[i].device_id = d
                        /\ \/ new[i].id = npackets'
                              /\ new[i].timestamp_sent = pkt'.timestamp
                              /\ new[i].seq = pkt'.seq
                           \/ \E k \in 1..4 :
                                 /\ reorder_buffer[d][k].id = new[i].id
                                 /\ reorder_buffer[d][k].timestamp = new[i].timestamp_sent
                                 /\ reorder_buffer[d][k].seq = new[i].seq
                 /\ \A i, j \in 1..5 :
                        i < j =>
                            \/ new[i].timestamp_sent < new[j].timestamp_sent
                            \/ /\ new[i].timestamp_sent = new[j].timestamp_sent
                               /\ new[i].id < new[j].id]_vars

\* a flush has reordered entries (a later arrival was written first) and
\* has kept two entries of equal send time in their arrival order
C5_Witness ==
    /\ Len(telemetry_log) = 5
    /\ \E i, j \in 1..5 : i < j /\ telemetry_log[i].id > telemetry_log[j].id
    /\ \E i, j \in 1..5 :
          /\ i < j
          /\ telemetry_log[i].timestamp_sent = telemetry_log[j].timestamp_sent
    /\ \E d \in DOMAIN reorder_buffer :
          reorder_buffer[d] = <<>> /\ pkt.device_id = d

\* C6: no datagram that arrived as a duplicate (its sequence equal to the
\* lastSeen of its device, the case the tracker classifies as duplicate) is
\* ever in the log, and no row carries the duplicate flag.
C6_NoDuplicateLogged ==
    \A i \in 1..Len(telemetry_log) :
        /\ telemetry_log[i].id \notin dup_ids
        /\ telemetry_log[i].duplicate_flag = 0

\* duplicates arrived while entries were pending, and a flush followed
C6_Witness ==
    /\ Len(telemetry_log) = 5
    /\ \E k \in dup_ids :
          \E a, b \in IdsOf(telemetry_log) : a < k /\ k < b

\* --------------------------------------------------------------- sensors

\* TelemetrySensor.__init__: self.batch_size
batch_size == IF cfg.batch_size < MAX_READINGS_PER_BATCH
              THEN cfg.batch_size ELSE MAX_READINGS_PER_BATCH

\* the ACK test with the threshold itself left out
NeedAck_Strict(buf) == \E i \in 1..Len(buf) : buf[i] > HIGH_TEMP_THRESHOLD

\* any(v >= HIGH_TEMP_THRESHOLD for v in self.batch_buffer)
NeedAck(buf) == \E i \in 1..Len(buf) : buf[i] >= HIGH_TEMP_THRESHOLD

\* build_packet: the header carries the incremented sequence and the time
BuildPacket(msg_type, payload, flags, seq, t) ==
    Datagram(msg_type % 16, SensorId, seq, t, flags, payload, SensorAddr)

RemoveAt(s, i) == SubSeq(s, 1, i - 1) \o SubSeq(s, i + 1, Len(s))

serverAll == <<trackerVars, obsVars, hbVars, hbObs, bufVars, bufObs>>

\* the heartbeat test satisfied by either interval alone
ShouldSendHeartbeat_Either(t, last_hb, last_data) ==
    \/ t - last_hb >= cfg.heartbeat_interval
    \/ t - last_data >= cfg.report_interval

\* should_send_heartbeat, read at time t
ShouldSendHeartbeat(t, last_hb, last_data) ==
    /\ t - last_hb >= cfg.heartbeat_interval
    /\ t - last_data >= cfg.report_interval

\* TelemetrySensor.send_heartbeat, called by run when should_send_heartbeat
SendHeartbeat ==
    /\ s_pc = "idle"
    /\ nsent < lim.sent
    /\ s_seq' = (s_seq + 1) % SeqMod
    /\ wire' = Append(wire, BuildPacket(HEARTBEAT, <<>>, 0, (s_seq + 1) % SeqMod, now))
    /\ nsent' = nsent + 1
    /\ last_heartbeat_time' = now
    /\ UNCHANGED <<batch_buffer, s_pc, retries, s_pkt, cfg, lim, fate, tx, nreply,
                   s_ret, last_data_time>>
    /\ UNCHANGED <<serverAll, packet_queue, ack_wire, ndup>>

\* the retry loop with one more round
LoopContinues_Inclusive(r, ack_received) == r <= MAX_RETRIES /\ ~ack_received

\* sensor.py line 38: while retries < MAX_RETRIES and not ack_received
LoopContinues(r, ack_received) == r < MAX_RETRIES /\ ~ack_received

\* a retransmission that builds a fresh packet with the next sequence number
RetryPacket_Rebuilt(p, seq) == [p EXCEPT !.seq = (seq + 1) % SeqMod]

\* sensor.py line 39, in a later round of the loop: pkt was built before it
RetryPacket(p, seq) == p

\* sensor.py lines 55-57 / sensor_base.py lines 83-85: the batch is done
FinishBatch ==
    /\ s_pc' = "idle"
    /\ batch_buffer' = <<>>
    /\ last_data_time' = now
    /\ s_ret' = "True"

\* run: generate a reading, buffer it, call TemperatureSensor.send_batch_packet
\* (up to the first recvfrom when an ACK is needed)
SendBatch(v) ==
    /\ s_pc = "idle"
    /\ nsent < lim.sent
    /\ LET buf == Append(batch_buffer, v) IN
       IF Len(buf) < batch_size
       THEN /\ batch_buffer' = buf
            /\ s_ret' = "False"
            /\ UNCHANGED <<s_seq, s_pc, retries, s_pkt, nsent, wire, tx,
                           nreply, last_data_time>>
       ELSE LET flags == IF NeedAck(buf) THEN AckFlag ELSE 0
                p == BuildPacket(DATA, PackValues(buf), flags,
                                 (s_seq + 1) % SeqMod, now)
            IN /\ s_seq' = (s_seq + 1) % SeqMod
               /\ s_pkt' = p
               /\ wire' = Append(wire, p)
               /\ nsent' = nsent + 1
               /\ tx' = 1
               /\ nreply' = 0
               /\ retries' = 0
               /\ IF NeedAck(buf)
                  THEN /\ s_pc' = "await"
                       /\ batch_buffer' = buf
                       /\ s_ret' = "running"
                       /\ UNCHANGED last_data_time
                  ELSE FinishBatch
    /\ UNCHANGED <<cfg, lim, fate, last_heartbeat_time>>
    /\ UNCHANGED <<serverAll, packet_queue, ack_wire, ndup>>

\* sensor_base.py lines 49-53: header and payload fit the datagram limit
CheckPayloadSize(payload) == HeaderSize + Len(payload) <= MAX_PACKET_BYTES

\* run: generate a reading, buffer it, call TelemetrySensor.send_batch_packet
SendBatchBase(v) ==
    /\ s_pc = "idle"
    /\ nsent < lim.sent
    /\ LET buf == Append(batch_buffer, v) IN
       IF Len(buf) < batch_size
       THEN /\ batch_buffer' = buf
            /\ s_ret' = "False"
            /\ UNCHANGED <<s_seq, s_pc, s_pkt, nsent, wire, tx, nreply,
                           last_data_time>>
       ELSE LET kept == IF CheckPayloadSize(PackValues(buf))
                        THEN buf
                        ELSE SubSeq(buf, 1, MAX_READINGS_PER_BATCH)
                p == BuildPacket(DATA, PackValues(kept), BatchedFlag,
                                 (s_seq + 1) % SeqMod, now)
            IN /\ s_seq' = (s_seq + 1) % SeqMod
               /\ s_pkt' = p
               /\ wire' = Append(wire, p)
               /\ nsent' = nsent + 1
               /\ tx' = 1
               /\ nreply' = 0
               /\ FinishBatch
    /\ UNCHANGED <<cfg, lim, fate, retries, last_heartbeat_time>>
    /\ UNCHANGED <<serverAll, packet_queue, ack_wire, ndup>>

\* the next round of the retry loop, or its end
NextRound(r, ack_received) ==
    IF LoopContinues(r, ack_received)
    THEN /\ nsent < lim.sent
         /\ wire' = Append(wire, RetryPacket(s_pkt, s_seq))
         /\ nsent' = nsent + 1
         /\ tx' = tx + 1
         /\ UNCHANGED <<s_pc, batch_buffer, last_data_time, s_ret>>
    ELSE /\ FinishBatch
         /\ UNCHANGED <<wire, nsent, tx>>

\* the retry loop after recvfrom returned the i-th ACK in flight; the
\* network hands over the datagram, or (keep) a copy of it
RecvAck(i, keep) ==
    /\ s_pc = "await"
    /\ i \in 1..Len(ack_wire)
    /\ keep => ndup < MaxDup
    /\ ndup' = IF keep THEN ndup + 1 ELSE ndup
    /\ ack_wire' = IF keep THEN ack_wire ELSE RemoveAt(ack_wire, i)
    /\ nreply' = nreply + 1
    /\ NextRound(retries, ack_wire[i].seq = s_seq)
    /\ UNCHANGED <<s_seq, retries, s_pkt, cfg, lim, fate, last_heartbeat_time, wake>>
    /\ UNCHANGED <<serverAll, packet_queue>>

\* the retry loop after recvfrom raised socket.timeout
AckTimeout ==
    /\ s_pc = "await"
    /\ retries' = retries + 1
    /\ NextRound(retries + 1, FALSE)
    /\ UNCHANGED <<s_seq, s_pkt, cfg, lim, fate, nreply, last_heartbeat_time,
                   wake>>
    /\ UNCHANGED <<serverAll, packet_queue, ack_wire, ndup>>

\* ------------------------------------------------------ ingestion pipeline
\* run: recvfrom returns the i-th datagram in flight (or, keep, a copy the
\* network made of it) and the receive loop enqueues it
RecvDatagram(i, keep) ==
    /\ i \in 1..Len(wire)
    /\ keep => ndup < MaxDup
    /\ ndup' = IF keep THEN ndup + 1 ELSE ndup
    /\ wire' = IF keep THEN wire ELSE RemoveAt(wire, i)
    /\ packet_queue' = Append(packet_queue, wire[i])
    /\ UNCHANGED <<serverAll, ack_wire, sensorVars>>

\* a queue that hands out the newest datagram first
QueueGet_Lifo(q) == [item |-> q[Len(q)], rest |-> SubSeq(q, 1, Len(q) - 1)]

\* queue.Queue.get: the oldest datagram, and the queue without it
QueueGet(q) == [item |-> Head(q), rest |-> Tail(q)]

\* queue_worker: take the oldest datagram and handle it
Worker ==
    /\ packet_queue # <<>>
    /\ HandlePacket(QueueGet(packet_queue).item, now)
    /\ packet_queue' = QueueGet(packet_queue).rest
    /\ ack_wire' = ack_wire \o SubSeq(acks_sent', Len(acks_sent) + 1, Len(acks_sent'))
    /\ UNCHANGED <<wire, ndup, sensorVars>>

\* time passes
Tick ==
    /\ now < lim.time
    /\ now' = now + 1
    /\ UNCHANGED <<trackerVars, obsVars, device_heartbeats, device_status,
                   status_rows, hbObs, bufVars, bufObs, netVars, sensorVars>>

\* --------------------------------------------------------------- SpecNet
\* A temperature sensor, the network between it and the server, and the
\* server's receive loop and worker.
SensorHeartbeat == SendHeartbeat /\ UNCHANGED wake
SensorBatch == (\E v \in Readings : SendBatch(v)) /\ UNCHANGED wake
SensorAck == \E i \in 1..Len(ack_wire), keep \in BOOLEAN : RecvAck(i, keep)
SensorTimeout == AckTimeout
ServerRecv == \E i \in 1..Len(wire), keep \in BOOLEAN : RecvDatagram(i, keep)

NextNet ==
    \/ SensorHeartbeat
    \/ SensorBatch
    \/ SensorAck
    \/ SensorTimeout
    \/ ServerRecv
    \/ Worker
    \/ Tick

SpecNet == Init /\ [][NextNet]_vars

\* C7: a packet with a given (deviceId, sequence), built once by the sensor,
\* is written to the telemetry log at most once, whatever the sensor
\* retransmits and the network duplicates, delays or reorders.
C7_AtMostOnce ==
    \A i, j \in 1..Len(telemetry_log) :
        (/\ telemetry_log[i].device_id = telemetry_log[j].device_id
         /\ telemetry_log[i].seq = telemetry_log[j].seq) => i = j

\* ---------------------------------------------------------------- SpecHB
\* The heartbeat monitor driven directly: a heartbeat of device d arrives
\* delta time units after the previous event.
Heartbeat(d, delta) ==
    /\ nbeats < MaxBeats
    /\ now' = now + delta
    /\ LET r == HandleHeartbeat(device_heartbeats, device_status, status_rows,
                                d, now + delta) IN
        /\ device_heartbeats' = r.device_heartbeats
        /\ device_status' = r.device_status
        /\ status_rows' = r.status_rows
        /\ avg_interval' = r.avg_interval
    /\ beat' = d
    /\ nbeats' = nbeats + 1
    /\ UNCHANGED <<trackerVars, obsVars, bufVars, bufObs, netVars, sensorVars>>

NextHB == \E d \in HBDevices, delta \in HBDeltas : Heartbeat(d, delta)

SpecHB == Init /\ [][NextHB]_vars

\* A step of SpecHB is a heartbeat of device d.
IsBeatFor(d) == nbeats' = nbeats + 1 /\ beat' = d

\* the mean of the consecutive gaps of w equals num / den
IsMeanOfGaps(w, avg) ==
    LET gaps == [i \in 1..(Len(w) - 1) |-> w[i + 1] - w[i]] IN
    IF Len(w) >= 2
    THEN avg.num * Len(gaps) = avg.den * SumSeq(gaps)
    ELSE avg.num = avg.den

\* C8: on every heartbeat the new status is OFFLINE iff the previous status
\* was ONLINE, at least 2 samples exist and the newest gap exceeds
\* 2 x avgInterval; otherwise it is ONLINE.
C8_OfflineIff ==
    [][\A d \in HBDevices :
          IsBeatFor(d) =>
              LET w == device_heartbeats'[d]
                  n == Len(w)
                  wasOnline == Has(device_status, d) /\ device_status[d] = "ONLINE"
                  late == /\ n >= 2
                          /\ (w[n] - w[n - 1]) * avg_interval'.den
                                 > 2 * avg_interval'.num
              IN /\ Has(device_status', d)
                 /\ device_status'[d] = "OFFLINE" <=> (wasOnline /\ late)
                 /\ device_status'[d] = "ONLINE" <=> ~(wasOnline /\ late)]_vars

\* five heartbeats spaced 1 apart, the sixth after a gap of 3: OFFLINE
C8_Witness ==
    \E d \in DOMAIN device_heartbeats :
        LET w == device_heartbeats[d] IN
        /\ Len(w) = 6
        /\ \A i \in 1..4 : w[i + 1] - w[i] = 1
        /\ w[6] - w[5] = 3
        /\ device_status[d] = "OFFLINE"
        /\ Len(status_rows) = 2

\* C9: the avgInterval of a heartbeat is the mean of the consecutive gaps
\* of the retained window (at most the 10 most recent timestamps, the new
\* one included), and 1.0 with fewer than 2 samples.
C9_AvgOverRetainedWindow ==
    beat \in DOMAIN device_heartbeats =>
        /\ Len(device_heartbeats[beat]) <= 10
        /\ IsMeanOfGaps(device_heartbeats[beat], avg_interval)

\* the rows of device d, in the order they were written
RowsOf(d) == SelectSeq(status_rows, LAMBDA r : r.device_id = d)

\* C10: a status row is written exactly when a heartbeat changes the
\* device's status or is its first; the rows of a device start with ONLINE
\* and alternate between ONLINE and OFFLINE.
C10_RowsOnChangeOnly ==
    /\ [][\A d \in HBDevices :
             LET changed == /\ IsBeatFor(d)
                            /\ \/ ~Has(device_status, d)
                               \/ device_status'[d] # device_status[d]
             IN /\ changed =>
                      /\ Len(status_rows') = Len(status_rows) + 1
                      /\ SubSeq(status_rows', 1, Len(status_rows)) = status_rows
                      /\ status_rows'[Len(status_rows')].device_id = d
                      /\ status_rows'[Len(status_rows')].status = device_status'[d]
                /\ ~changed => RowsOf(d)' = RowsOf(d)]_vars
    /\ [](\A d \in HBDevices :
             LET rows == RowsOf(d) IN
             /\ (rows # <<>> => rows[1].status = "ONLINE")
             /\ \A i \in 1..(Len(rows) - 1) : rows[i].status # rows[i + 1].status
             /\ \A i \in 1..Len(rows) : rows[i].status \in {"ONLINE", "OFFLINE"})

\* ONLINE, OFFLINE, ONLINE have been written and a later heartbeat wrote nothing
C10_Witness ==
    \E d \in HBDevices :
        /\ Len(RowsOf(d)) = 3
        /\ Has(device_heartbeats, d)
        /\ Len(device_heartbeats[d]) >= 5
        /\ RowsOf(d)[3].timestamp < now
        /\ beat = d

\* --------------------------------------------------------------- SpecCtl
\* A temperature sensor running its loop against any sequence of replies:
\* ACKs for the packet it is sending, ACKs for an earlier one, or silence.
CtlSent == 6        \* sendto calls of the sensor in SpecCtl
CtlTime == 6        \* clock readings 0..CtlTime in SpecCtl
CtlBatch == 2       \* batch_size the sensor of SpecCtl is constructed with
MaxAcks == 1        \* ACK datagrams waiting at the sensor's socket in SpecCtl

\* run, one iteration of the loop (lines 119-139): a heartbeat, or a reading
\* and send_batch_packet; the sleep ends report_interval after the start
RunIteration ==
    /\ s_pc = "idle"
    /\ now >= wake
    /\ now < cfg.duration
    /\ wake' = now + cfg.report_interval
    /\ IF ShouldSendHeartbeat(now, last_heartbeat_time, last_data_time)
       THEN SendHeartbeat
       ELSE \E v \in Readings :
               IF cfg.kind = "temperature" THEN SendBatch(v) ELSE SendBatchBase(v)

\* an ACK datagram for sequence q reaches the sensor's socket
AckArrives(q) ==
    /\ Len(ack_wire) < MaxAcks
    /\ ack_wire' = Append(ack_wire, [addr |-> SensorAddr, seq |-> q])
    /\ UNCHANGED <<serverAll, packet_queue, wire, ndup, sensorVars>>

\* the replies offered: for the current sequence, or for the one before it
Reply == \E q \in {s_seq, (s_seq + SeqMod - 1) % SeqMod} : AckArrives(q)

InitCtl ==
    /\ ServerInit
    /\ \E seq0 \in {0, SeqMod - 2} :
          SensorInit(Construct("temperature", CtlBatch, 1, 4, 60),
                     [sent |-> CtlSent, time |-> CtlTime], seq0, <<>>)

NextCtl ==
    \/ RunIteration
    \/ SensorAck
    \/ SensorTimeout
    \/ Reply
    \/ Tick

SpecCtl == InitCtl /\ [][NextCtl]_vars

\* C11: whatever replies arrive while a flagged batch is being sent (ACKs
\* for the current sequence, ACKs for another sequence, or none), the batch
\* is transmitted at most MAX_RETRIES (3) times.
C11_AtMostThreeSends == tx <= MAX_RETRIES

\* C12: a flagged batch that no reply ever answers is transmitted exactly
\* MAX_RETRIES (3) times; send_batch_packet then returns True all the same,
\* the pending batch is cleared and the sensor is back in its loop.
C12_SilentBatchSentThrice ==
    /\ [](s_pc = "await" /\ nreply = 0 => tx = retries + 1 /\ tx <= MAX_RETRIES)
    /\ [][s_pc = "await" /\ s_pc' = "idle" /\ nreply' = 0 =>
             /\ tx' = MAX_RETRIES
             /\ wire' = wire
             /\ s_ret' = "True"
             /\ batch_buffer' = <<>>]_vars

\* three transmissions went unanswered and the loop has taken the next reading
C12_Witness ==
    /\ s_pc = "idle"
    /\ nreply = 0
    /\ retries = MAX_RETRIES
    /\ tx = MAX_RETRIES
    /\ s_ret = "False"
    /\ Len(batch_buffer) = 1

\* C13: every retransmission puts the packet built for the batch on the wire
\* again, unchanged and with the same sequence number; self.seq moves only
\* when a packet is built, by exactly 1 modulo 65536, never when a packet is
\* transmitted again.
C13_RetransmitSamePacket ==
    /\ [][s_pc = "await" /\ wire' # wire =>
             /\ wire' = Append(wire, s_pkt)
             /\ s_pkt.seq = s_seq
             /\ s_seq' = s_seq
             /\ s_pkt' = s_pkt]_vars
    /\ [][s_seq' # s_seq =>
             /\ s_pc = "idle"
             /\ s_seq' = (s_seq + 1) % SeqMod
             /\ Len(wire') = Len(wire) + 1
             /\ wire'[Len(wire')].seq = s_seq']_vars
    /\ [](\A i, j \in 1..Len(wire) : wire[i].seq = wire[j].seq => wire[i] = wire[j])

\* the batch built with sequence 0, right after 65535, was sent three times
C13_Witness ==
    /\ s_seq = 0
    /\ tx = MAX_RETRIES
    /\ \E i, j, k \in 1..Len(wire) :
          /\ i < j /\ j < k
          /\ wire[i].seq = 0 /\ wire[i] = wire[j] /\ wire[j] = wire[k]
          /\ wire[i].raw_byte % 16 = DATA
    /\ \E i \in 1..Len(wire) : wire[i].seq = SeqMod - 1

\* the readings a DATA packet carries, decoded from its payload
HasHighReading(p) ==
    \E i \in 1..Len(ParseValues(p.payload)) :
        ParseValues(p.payload)[i] >= HIGH_TEMP_THRESHOLD

\* C14: a batch goes out with bit 1 of the flags set, and the sensor waits
\* for an ACK, exactly when one of its readings is >= 3500; a batch with every
\* reading below 3500 is sent once, flag clear, and the call returns at once.
C14_AckIffHighReading ==
    /\ [][s_pc = "idle" /\ Len(wire') = Len(wire) + 1
             /\ MsgType(wire'[Len(wire')]) = DATA =>
             LET p == wire'[Len(wire')] IN
             /\ AckRequested(p.flags) <=> HasHighReading(p)
             /\ s_pc' = "await" <=> HasHighReading(p)
             /\ ~HasHighReading(p) =>
                   /\ p.flags = 0
                   /\ s_ret' = "True"
                   /\ batch_buffer' = <<>>]_vars
    /\ [](\A i, j \in 1..Len(wire) :
             /\ MsgType(wire[i]) = DATA
             /\ ~AckRequested(wire[i].flags)
             /\ wire[i].seq = wire[j].seq
             => i = j)

\* one batch of low readings went out unflagged, then one holding exactly
\* 3500 went out flagged and is waiting for its ACK
C14_Witness ==
    /\ s_pc = "await"
    /\ tx = 1
    /\ \E i, j \in 1..Len(wire) :
          /\ i < j /\ j = Len(wire)
          /\ MsgType(wire[i]) = DATA /\ MsgType(wire[j]) = DATA
          /\ wire[i].flags = 0
          /\ ParseValues(wire[i].payload) = <<1500, 1500>>
          /\ wire[j].flags = AckFlag
          /\ ParseValues(wire[j].payload) = <<1500, 3500>>

\* C15: every DATA datagram the server handles with bit 1 of the flags set
\* is answered with "ACK <sequence>" to its source address, a retransmitted
\* copy of a packet already received included; a DATA datagram with the bit
\* clear is never answered.
C15_AckEveryFlaggedData ==
    [][npackets' = npackets + 1 /\ pkt'.size >= HeaderSize
          /\ MsgType(pkt') = DATA =>
          IF AckRequested(pkt'.flags)
          THEN acks_sent' = Append(acks_sent, [addr |-> pkt'.addr, seq |-> pkt'.seq])
          ELSE acks_sent' = acks_sent]_vars

\* C20: a datagram whose message type is neither DATA nor HEARTBEAT is
\* dropped without effect: nothing is buffered, logged or acknowledged, and
\* last_seq and the duplicate and gap counters of its device stay as they
\* were, so that later packets are classified as if it had never arrived.
C20_UnknownTypeNoEffect ==
    [][npackets' = npackets + 1 /\ pkt'.size >= HeaderSize
          /\ MsgType(pkt') \notin {DATA, HEARTBEAT} =>
          /\ UNCHANGED <<reorder_buffer, last_values, telemetry_log, acks_sent>>
          /\ UNCHANGED <<device_heartbeats, device_status, status_rows>>
          /\ UNCHANGED <<last_seq, duplicate_counts, gap_counts>>]_vars

\* -------------------------------------------------------------- SpecPipe
\* The server's two threads: the receive loop enqueues whatever datagram
\* arrives, the worker handles the queue.
MaxQueued == 4      \* datagrams received in SpecPipe

\* run, lines 70-73: recvfrom returned data; put it on the queue
Arrive(data) ==
    /\ npackets + Len(packet_queue) < MaxQueued
    /\ packet_queue' = Append(packet_queue, data)
    /\ UNCHANGED <<serverAll, wire, ack_wire, ndup, sensorVars>>

ReceiveLoop == \E data \in SrvDatagrams : Arrive(data)

NextPipe ==
    \/ ReceiveLoop
    \/ Worker
    \/ Tick

SpecPipe == Init /\ [][NextPipe]_vars

\* what handle_packet reads and writes
serverState ==
    <<last_seq, duplicate_counts, gap_counts, device_heartbeats, device_status,
      status_rows, reorder_buffer, last_values, telemetry_log, acks_sent>>

\* C17: datagrams are handled strictly in the order they were enqueued and
\* one at a time: the receive loop only appends to the queue, the worker
\* takes the oldest entry, and the server's state changes only in a step in
\* which the worker handles one datagram.
C17_FifoSingleConsumer ==
    /\ [][npackets' = npackets + 1 =>
             /\ packet_queue # <<>>
             /\ pkt' = Head(packet_queue)
             /\ packet_queue' = Tail(packet_queue)]_vars
    /\ [][npackets' = npackets /\ packet_queue' # packet_queue =>
             /\ Len(packet_queue') = Len(packet_queue) + 1
             /\ SubSeq(packet_queue', 1, Len(packet_queue)) = packet_queue
             /\ serverState' = serverState]_vars
    /\ [][serverState' # serverState => npackets' = npackets + 1]_vars

\* the worker has handled the flagged DATA packet of sequence 1 while two
\* later datagrams, a heartbeat and then a DATA packet, wait in that order
C17_Witness ==
    /\ npackets = 1
    /\ pkt.seq = 1 /\ MsgType(pkt) = DATA
    /\ Len(acks_sent) = 1
    /\ Len(packet_queue) = 2
    /\ MsgType(packet_queue[1]) = HEARTBEAT
    /\ MsgType(packet_queue[2]) = DATA /\ packet_queue[2].seq = 2

\* --------------------------------------------------------------- SpecRun
\* A sensor of the base class running its loop for its duration, the
\* network, and the server's receive loop and worker.
RunSent == 3        \* sendto calls of the sensor in SpecRun (never reached)
RunTime == 4        \* clock readings 0..RunTime in SpecRun
RunDuration == 4    \* run(duration): the sensor's loop ends at this time

InitRun ==
    /\ ServerInit
    /\ SensorInit(Construct("base", 1, 1, 2, RunDuration),
                  [sent |-> RunSent, time |-> RunTime], 0, <<>>)

NextRun ==
    \/ RunIteration
    \/ ServerRecv
    \/ Worker
    \/ Tick

SpecRun == InitRun /\ [][NextRun]_vars

\* run, line 119: the loop condition time.time() < end_time has become false
Finished == s_pc = "idle" /\ now >= cfg.duration

\* C16: every DATA or HEARTBEAT packet the server has processed and not
\* dropped as a duplicate is written to the telemetry log in the end: once
\* the sensor's run is over and every datagram it sent has been handled,
\* when no further step can write a row, no entry is left in a reorder buffer.
C16_NoEntryLeftBehind ==
    Finished /\ wire = <<>> /\ packet_queue = <<>> =>
        \A d \in DOMAIN reorder_buffer : reorder_buffer[d] = <<>>

\* C19: at each iteration of the sensor's loop a heartbeat is sent exactly
\* when the time since the last heartbeat is >= heartbeat_interval and the
\* time since the last data send is >= report_interval. In such an iteration
\* no reading is taken, the pending batch stays as it is and no DATA packet
\* goes out; in every other iteration exactly one reading is appended to the
\* pending batch (which is then sent whole, or kept).
C19_HeartbeatWhenDue ==
    [][wake' # wake =>
          LET due == /\ now - last_heartbeat_time >= cfg.heartbeat_interval
                     /\ now - last_data_time >= cfg.report_interval
              sent == Len(wire') = Len(wire) + 1
              last == wire'[Len(wire')]
          IN /\ (sent /\ MsgType(last) = HEARTBEAT) <=> due
             /\ due => /\ batch_buffer' = batch_buffer
                       /\ SubSeq(wire', 1, Len(wire)) = wire
                       /\ last_heartbeat_time' = now
             /\ ~due => \E v \in Readings :
                           LET buf == Append(batch_buffer, v) IN
                           \/ wire' = wire /\ batch_buffer' = buf
                           \/ /\ sent /\ MsgType(last) = DATA
                              /\ ParseValues(last.payload) = buf
                              /\ batch_buffer' \in {buf, <<>>}]_vars

\* the heartbeat interval has elapsed, but data went out less than
\* report_interval before the iteration: a reading was taken instead
C19_Witness ==
    /\ wake = now + cfg.report_interval
    /\ now - last_heartbeat_time >= cfg.heartbeat_interval
    /\ now - last_data_time < cfg.report_interval
    /\ Len(batch_buffer) = 1
    /\ s_ret = "False"

\* ------------------------------------------------------------- SpecBatch
\* send_batch_packet of either class, called from the loop on a pending
\* batch of any length up to MaxPending, for a sensor constructed with a
\* batch_size below or above the cap.
MaxPending == 50    \* readings in the longest pending batch of SpecBatch
BatchSent == 2      \* sendto calls of the sensor in SpecBatch
BatchTime == 3      \* clock readings 0..BatchTime in SpecBatch
BatchArgs == {3, MaxPending}    \* batch_size passed to __init__
PendingLens == {0, 2, MAX_READINGS_PER_BATCH - 1, MaxPending - 1}

\* a pending batch of n low readings
Pending(n) == [i \in 1..n |-> 1500]

InitBatch ==
    /\ ServerInit
    /\ \E kind \in {"base", "temperature"}, b \in BatchArgs, n \in PendingLens :
          SensorInit(Construct(kind, b, 1, 15, 60),
                     [sent |-> BatchSent, time |-> BatchTime], 0, Pending(n))

SpecBatch == InitBatch /\ [][NextCtl]_vars

LossSent == 5       \* sendto calls of the sensor in SpecLoss
LossTime == 6       \* clock readings 0..LossTime in SpecLoss
WrapLead == 3       \* SpecLoss also starts the sensor this far below 65536

\* the oldest datagram in flight reaches the server and is handled
Deliver ==
    /\ wire # <<>>
    /\ HandlePacket(Head(wire), now)
    /\ wire' = Tail(wire)
    /\ fate' = Append(fate, TRUE)
    /\ ack_wire' = ack_wire \o SubSeq(acks_sent', Len(acks_sent) + 1, Len(acks_sent'))
    /\ UNCHANGED <<packet_queue, ndup, sensorOwn>>

\* the oldest datagram in flight is lost
Lose ==
    /\ wire # <<>>
    /\ wire' = Tail(wire)
    /\ fate' = Append(fate, FALSE)
    /\ UNCHANGED <<serverAll, packet_queue, ack_wire, ndup, sensorOwn>>

InitLoss ==
    /\ ServerInit
    /\ \E seq0 \in {0, SeqMod - WrapLead} :
          SensorInit(Construct("base", 1, 1, 2, 60),
                     [sent |-> LossSent, time |-> LossTime], seq0, <<>>)

NextLoss ==
    \/ RunIteration
    \/ Deliver
    \/ Lose
    \/ Tick

SpecLoss == InitLoss /\ [][NextLoss]_vars

\* the datagrams delivered so far, by their position in the order sent
DeliveredIdx == {i \in 1..Len(fate) : fate[i]}

\* those lost between the first and the latest delivered one
LostBetween ==
    {i \in 1..Len(fate) :
        /\ ~fate[i]
        /\ \E a, b \in DeliveredIdx : a < i /\ i < b}

\* C21: when the packets of a device arrive in the order sent, some lost,
\* none duplicated or reordered, its gap counter equals the number of
\* sequence numbers sent before the latest packet received (and after the
\* first) that never arrived, also when the lost ones span 65535 -> 0.
C21_GapCountIsLossCount ==
    DeliveredIdx # {} =>
        /\ Has(gap_counts, SensorId)
        /\ gap_counts[SensorId] = Cardinality(LostBetween)

\* C22: as long as the channel has delivered every datagram of a sensor that
\* never retransmits, once and in the order sent, the server has classified
\* none of its packets, DATA or HEARTBEAT, as duplicate, gap or out of
\* order: each was accepted as the first or as the successor of the one
\* before it, past the sequence wraparound too.
C22_CleanChannelNoFlags ==
    (DeliveredIdx # {} /\ \A i \in 1..Len(fate) : fate[i]) =>
        /\ ret = NoFlags
        /\ duplicate_counts[SensorId] = 0
        /\ gap_counts[SensorId] = 0
        /\ dup_ids = {}
        /\ last_seq[SensorId] = pkt.seq
        /\ in_order[SensorId] = Len(fate)

\* five packets, heartbeats and data, sent across 65535 -> 0, all delivered
\* and flushed to the log without a flag
C22_Witness ==
    /\ Len(fate) = LossSent
    /\ \A i \in 1..Len(fate) : fate[i]
    /\ last_seq[SensorId] = LossSent - WrapLead
    /\ Len(telemetry_log) = LossSent
    /\ \E i, j \in 1..Len(telemetry_log) :
          /\ telemetry_log[i].msg_type = DATA /\ telemetry_log[i].seq = SeqMod - 1
          /\ telemetry_log[j].msg_type = HEARTBEAT /\ telemetry_log[j].seq = 0
    /\ \A i \in 1..Len(telemetry_log) :
          telemetry_log[i].gap_flag = 0 /\ telemetry_log[i].duplicate_flag = 0

\* the entries pending for device d
PendingOf(d) == IF Has(reorder_buffer, d) THEN reorder_buffer[d] ELSE <<>>

\* C23: between two packets every device's reorder buffer holds 0 to 4
\* entries, each a non-duplicate DATA or HEARTBEAT packet; the buffer is
\* flushed exactly by the 5th such packet accepted from the device since its
\* previous flush, and duplicates, packets of unknown type and packets
\* shorter than the header neither enter the buffer nor trigger a flush.
C23_FlushOnFifthAccepted ==
    /\ [](\A d \in DOMAIN reorder_buffer :
             /\ Len(reorder_buffer[d]) < FlushThreshold
             /\ \A i \in 1..Len(reorder_buffer[d]) :
                   /\ reorder_buffer[d][i].duplicate_flag = 0
                   /\ reorder_buffer[d][i].msg_type \in {DATA, HEARTBEAT}
                   /\ reorder_buffer[d][i].id \notin dup_ids)
    /\ [][npackets' = npackets + 1 =>
             LET d == pkt'.device_id
                 accepted == /\ pkt'.size >= HeaderSize
                             /\ MsgType(pkt') \in {DATA, HEARTBEAT}
                             /\ ~(Has(last_seq, d) /\ last_seq[d] = pkt'.seq)
             IN IF accepted
                THEN IF Len(PendingOf(d)) = FlushThreshold - 1
                     THEN /\ reorder_buffer'[d] = <<>>
                          /\ Len(telemetry_log') = Len(telemetry_log) + FlushThreshold
                     ELSE /\ Len(reorder_buffer'[d]) = Len(PendingOf(d)) + 1
                          /\ telemetry_log' = telemetry_log
                ELSE /\ reorder_buffer' = reorder_buffer
                     /\ telemetry_log' = telemetry_log]_vars

\* four packets of device 1001 were buffered, a duplicate among the arrivals
\* did not count, and the fifth accepted packet (the sixth arrival) flushed
C23_Witness ==
    /\ npackets = 6
    /\ dup_ids # {}
    /\ pkt.device_id = 1001
    /\ Len(telemetry_log) = FlushThreshold
    /\ reorder_buffer[1001] = <<>>
    /\ \E i \in 1..Len(telemetry_log) : telemetry_log[i].id = 6

\* -------------------------------------------------------------- SpecFirst
\* The first heartbeats of two devices, at arrival times far apart or equal.
MaxFirst == 4                   \* heartbeats explored by SpecFirst
FirstDeltas == {0, 1, 2, 7, 50} \* time elapsed between two heartbeats

NextFirst ==
    \E d \in Devices, delta \in FirstDeltas : nbeats < MaxFirst /\ Heartbeat(d, delta)

SpecFirst == Init /\ [][NextFirst]_vars

\* C24: none of the first three heartbeats of a device classifies it
\* OFFLINE, whatever their (non-decreasing) arrival times: after at most
\* three heartbeats the device is ONLINE and its only status row says so.
C24_OnlineForThreeBeats ==
    \A d \in DOMAIN device_heartbeats :
        Len(device_heartbeats[d]) <= 3 =>
            /\ device_status[d] = "ONLINE"
            /\ Len(RowsOf(d)) = 1
            /\ RowsOf(d)[1].status = "ONLINE"

\* three heartbeats of a device, the second at the time of the first and
\* the third 50 later, and the device is ONLINE
C24_Witness ==
    \E d \in DOMAIN device_heartbeats :
        /\ Len(device_heartbeats[d]) = 3
        /\ device_heartbeats[d][2] = device_heartbeats[d][1]
        /\ device_heartbeats[d][3] = device_heartbeats[d][2] + 50
        /\ beat = d
        /\ device_status[d] = "ONLINE"
====
